---------------------------- MODULE Spec2Model ----------------------------
(***************************************************************************)
(* Model of tools/qwen_image_pipeline.py.                                  *)
(*                                                                         *)
(* The file is one Python module.  Its top level is a straight line of     *)
(* statements: the "direct-API" snippet (lines 1-24), the "pipeline"       *)
(* snippet (lines 24-37), and then both snippets once more (lines 37-60    *)
(* and 60-73).  Each statement is one step of the interpreter; a call into *)
(* the transformers library either returns or raises, and an exception     *)
(* that nothing catches ends the interpreter.                              *)
(***************************************************************************)
EXTENDS Integers, Sequences, FiniteSets, TLC

VARIABLES
    pc,         \* index in Prog of the next statement; Len(Prog)+1 at the end
    err,        \* <<>> while running, <<statement>> once a call has raised
    processor,  \* module global `processor`
    model,      \* module global `model`
    messages,   \* module global `messages`
    inputs,     \* module global `inputs`: input_ids, a batch of token rows
    outputs,    \* module global `outputs`: a batch of token rows
    pipe,       \* module global `pipe`
    stdout,     \* what has been written to standard output, one entry per print
    exprValue,  \* value of the last expression statement (computed, then dropped)
    calls,      \* history: the statements started so far, in order
    genNew,     \* history: the tokens the last generate call produced itself
    decodeArg,  \* history: the argument of the last processor.decode call
    writer,     \* history: for each global, the snippet that assigned it last
    crossRead   \* history: some statement read a global another snippet assigned

vars == <<pc, err, processor, model, messages, inputs, outputs, pipe,
          stdout, exprValue, calls, genNew, decodeArg, writer, crossRead>>

-----------------------------------------------------------------------------
(* Bounds of the model.                                                     *)

\* longest prompt (in tokens) the chat template is taken to produce
MaxPrompt == 2

\* longest answer (in tokens) the pipeline callable is taken to produce
MaxPipeNew == 2

-----------------------------------------------------------------------------
(* Literals of the script.                                                  *)

Checkpoint == "Qwen/Qwen3-VL-8B-Instruct"

PipelineTask == "image-text-to-text"

ImageUrl == "https://huggingface.co/datasets/huggingface/documentation-images/resolve/main/p-blog/candy.JPG"

Question == "What animal is on the candy?"

max_new_tokens == 40

MessagesLiteral ==
    << [role    |-> "user",
        content |-> << [type |-> "image", url  |-> ImageUrl],
                       [type |-> "text",  text |-> Question] >>] >>

Unset == "unset"

-----------------------------------------------------------------------------
(* The statements of the module, in file order.                            *)

Stmt(op, line, wf, inst) == [op |-> op, line |-> line, wf |-> wf, inst |-> inst]

\* the direct snippet with generation placed before the formatting step
DirectStmtsSwapped(inst, l) ==
    << Stmt("import_auto",         l,      "direct", inst),
       Stmt("load_processor",      l + 2,  "direct", inst),
       Stmt("load_model",          l + 3,  "direct", inst),
       Stmt("messages",            l + 4,  "direct", inst),
       Stmt("generate",            l + 13, "direct", inst),
       Stmt("apply_chat_template", l + 15, "direct", inst),
       Stmt("decode_print",        l + 22, "direct", inst) >>

DirectStmts(inst, l) ==
    << Stmt("import_auto",         l,      "direct", inst),
       Stmt("load_processor",      l + 2,  "direct", inst),
       Stmt("load_model",          l + 3,  "direct", inst),
       Stmt("messages",            l + 4,  "direct", inst),
       Stmt("apply_chat_template", l + 13, "direct", inst),
       Stmt("generate",            l + 21, "direct", inst),
       Stmt("decode_print",        l + 22, "direct", inst) >>

PipelineStmts(inst, l) ==
    << Stmt("import_pipeline",     l,      "pipeline", inst),
       Stmt("pipeline",            l + 2,  "pipeline", inst),
       Stmt("messages",            l + 3,  "pipeline", inst),
       Stmt("pipe_call",           l + 12, "pipeline", inst) >>

Prog == DirectStmts(1, 2) \o PipelineStmts(1, 25)
        \o DirectStmts(2, 38) \o PipelineStmts(2, 61)

Halted == Len(Prog) + 1

\* an interpreter that goes on after an exception
RunningAfterError == pc \in 1..Len(Prog)

\* the interpreter runs until a statement raises or the file ends
Running == err = <<>> /\ pc \in 1..Len(Prog)

At(op) == Running /\ Prog[pc].op = op

-----------------------------------------------------------------------------
(* The library, as far as the script relies on it.                         *)

TokenPatterns == {"same", "cycle"}

\* token at position i of a sequence written in pattern p
Tok(p, i) == IF p = "same" THEN 2 ELSE (i % 3) + 1

TokenSeq(p, n) == [i \in 1..n |-> Tok(p, i)]

\* apply_chat_template(..., tokenize=True, return_dict=True, return_tensors="pt"):
\* a batch with one row of n >= 1 prompt tokens
TemplateResults == { << TokenSeq(p, n) >> : p \in TokenPatterns, n \in 1..MaxPrompt }

\* a generate call that runs one token past its cap
NewTokenRunsUncapped(cap) == { TokenSeq(p, k) : p \in TokenPatterns, k \in 0..(cap + 1) }

\* generate(input_ids, max_new_tokens=cap): one row per input row, the prompt
\* followed by at most cap new tokens
NewTokenRuns(cap) == { TokenSeq(p, k) : p \in TokenPatterns, k \in 0..cap }

\* processor.decode: each token id becomes its piece of text
Piece(t) == CASE t = 1 -> "cat" [] t = 2 -> " " [] OTHER -> "<|im_end|>"

decode(toks) == [i \in 1..Len(toks) |-> Piece(toks[i])]

\* what pipe(text=messages) returns: a list with one dict
PipeResults ==
    { << [input_text |-> MessagesLiteral, generated_text |-> decode(TokenSeq(p, k))] >> :
        p \in TokenPatterns, k \in 1..MaxPipeNew }

-----------------------------------------------------------------------------
(* Python operators used by the script.                                    *)

\* t.shape[-1] of a two-dimensional tensor: the length of a row
ShapeLast(t) == Len(t[1])

\* the slice taken one position early: row[n-1:]
SliceFromInclusive(row, n) == SubSeq(row, n, Len(row))

\* row[n:] for 0 <= n
SliceFrom(row, n) == SubSeq(row, n + 1, Len(row))

-----------------------------------------------------------------------------
Globals == {"processor", "model", "messages", "inputs", "outputs", "pipe"}

\* a name is bound once the module has assigned it
Bound(g) ==
    CASE g = "processor" -> processor # Unset
      [] g = "model"     -> model # Unset
      [] g = "messages"  -> messages # <<>>
      [] g = "inputs"    -> inputs # <<>>
      [] g = "outputs"   -> outputs # <<>>
      [] OTHER           -> pipe # <<>>

\* the globals a statement reads, and the global it assigns
Reads(op) ==
    CASE op = "apply_chat_template" -> {"processor", "messages", "model"}
      [] op = "generate"            -> {"model", "inputs"}
      [] op = "decode_print"        -> {"processor", "outputs", "inputs"}
      [] op = "pipe_call"           -> {"pipe", "messages"}
      [] OTHER                      -> {}

Writes(op) ==
    CASE op = "load_processor"      -> {"processor"}
      [] op = "load_model"          -> {"model"}
      [] op = "messages"            -> {"messages"}
      [] op = "apply_chat_template" -> {"inputs"}
      [] op = "generate"            -> {"outputs"}
      [] op = "pipeline"            -> {"pipe"}
      [] OTHER                      -> {}

Snippet(s) == <<s.wf, s.inst>>

Entry(s, ok) == [stmt |-> s, ok |-> ok]

Init ==
    /\ pc = 1
    /\ err = <<>>
    /\ processor = Unset
    /\ model = Unset
    /\ messages = <<>>
    /\ inputs = <<>>
    /\ outputs = <<>>
    /\ pipe = <<>>
    /\ stdout = <<>>
    /\ exprValue = <<>>
    /\ calls = <<>>
    /\ genNew = <<>>
    /\ decodeArg = <<>>
    /\ writer = [g \in Globals |-> <<>>]
    /\ crossRead = FALSE

NoteReads ==
    crossRead' = (crossRead \/ \E g \in Reads(Prog[pc].op) :
                                  Bound(g) /\ writer[g] # Snippet(Prog[pc]))

\* an exception leaves the statement unfinished; no handler exists, so the
\* interpreter stops there with every global as it was
Raise ==
    /\ err' = << [stmt |-> Prog[pc], printed |-> Len(stdout)] >>
    /\ calls' = Append(calls, Entry(Prog[pc], FALSE))
    /\ NoteReads
    /\ UNCHANGED <<pc, processor, model, messages, inputs, outputs, pipe,
                   stdout, exprValue, writer>>

\* the statement completes and control falls through to the next one
Advance ==
    /\ pc' = pc + 1
    /\ calls' = Append(calls, Entry(Prog[pc], TRUE))
    /\ NoteReads
    /\ writer' = [g \in Globals |->
                    IF g \in Writes(Prog[pc].op) THEN Snippet(Prog[pc]) ELSE writer[g]]
    /\ UNCHANGED err

\* every name the statement reads is bound (otherwise: NameError)
NamesBound == \A g \in Reads(Prog[pc].op) : Bound(g)

\* from transformers import AutoProcessor, AutoModelForVision2Seq
ImportAuto ==
    /\ At("import_auto")
    /\ \/ /\ Advance
          /\ UNCHANGED <<processor, model, messages, inputs, outputs, pipe,
                         stdout, exprValue, genNew, decodeArg>>
       \/ /\ Raise
          /\ UNCHANGED <<genNew, decodeArg>>

\* processor = AutoProcessor.from_pretrained(Checkpoint)
LoadProcessor ==
    /\ At("load_processor")
    /\ \/ /\ Advance
          /\ processor' = Checkpoint
          /\ UNCHANGED <<model, messages, inputs, outputs, pipe,
                         stdout, exprValue, genNew, decodeArg>>
       \/ /\ Raise
          /\ UNCHANGED <<genNew, decodeArg>>

\* model = AutoModelForVision2Seq.from_pretrained(Checkpoint)
LoadModel ==
    /\ At("load_model")
    /\ \/ /\ Advance
          /\ model' = Checkpoint
          /\ UNCHANGED <<processor, messages, inputs, outputs, pipe,
                         stdout, exprValue, genNew, decodeArg>>
       \/ /\ Raise
          /\ UNCHANGED <<genNew, decodeArg>>

\* messages = [ {"role": "user", "content": [ image part, text part ]} ]
BuildMessages ==
    /\ At("messages")
    /\ Advance
    /\ messages' = MessagesLiteral
    /\ UNCHANGED <<processor, model, inputs, outputs, pipe,
                   stdout, exprValue, genNew, decodeArg>>

\* inputs = processor.apply_chat_template(messages, ...).to(model.device)
ApplyChatTemplate ==
    /\ At("apply_chat_template")
    /\ \/ /\ NamesBound
          /\ Advance
          /\ inputs' \in TemplateResults
          /\ UNCHANGED <<processor, model, messages, outputs, pipe,
                         stdout, exprValue, genNew, decodeArg>>
       \/ /\ Raise
          /\ UNCHANGED <<genNew, decodeArg>>

\* outputs = model.generate(**inputs, max_new_tokens=40)
Generate ==
    /\ At("generate")
    /\ \/ /\ NamesBound
          /\ Advance
          /\ \E new \in NewTokenRuns(max_new_tokens) :
                /\ outputs' = << inputs[1] \o new >>
                /\ genNew' = new
          /\ UNCHANGED <<processor, model, messages, inputs, pipe,
                         stdout, exprValue, decodeArg>>
       \/ /\ Raise
          /\ UNCHANGED <<genNew, decodeArg>>

\* print(processor.decode(outputs[0][inputs["input_ids"].shape[-1]:]))
DecodePrint ==
    /\ At("decode_print")
    /\ \/ /\ NamesBound
          /\ LET arg == SliceFrom(outputs[1], ShapeLast(inputs))
             IN  /\ decodeArg' = arg
                 /\ \/ /\ Advance
                       /\ stdout' = Append(stdout, decode(arg))
                       /\ UNCHANGED <<processor, model, messages, inputs,
                                      outputs, pipe, exprValue, genNew>>
                    \/ /\ Raise
                       /\ UNCHANGED genNew
       \/ /\ ~NamesBound
          /\ Raise
          /\ UNCHANGED <<genNew, decodeArg>>

\* from transformers import pipeline
ImportPipeline ==
    /\ At("import_pipeline")
    /\ \/ /\ Advance
          /\ UNCHANGED <<processor, model, messages, inputs, outputs, pipe,
                         stdout, exprValue, genNew, decodeArg>>
       \/ /\ Raise
          /\ UNCHANGED <<genNew, decodeArg>>

\* pipe = pipeline("image-text-to-text", model=Checkpoint)
BuildPipeline ==
    /\ At("pipeline")
    /\ \/ /\ Advance
          /\ pipe' = << [task |-> PipelineTask, model |-> Checkpoint] >>
          /\ UNCHANGED <<processor, model, messages, inputs, outputs,
                         stdout, exprValue, genNew, decodeArg>>
       \/ /\ Raise
          /\ UNCHANGED <<genNew, decodeArg>>

\* pipe(text=messages) with its value displayed, as an interactive session would
PipeCallDisplayed ==
    /\ At("pipe_call")
    /\ \/ /\ NamesBound
          /\ Advance
          /\ \E r \in PipeResults :
                /\ exprValue' = r
                /\ stdout' = Append(stdout, r[1].generated_text)
          /\ UNCHANGED <<processor, model, messages, inputs, outputs, pipe,
                         genNew, decodeArg>>
       \/ /\ Raise
          /\ UNCHANGED <<genNew, decodeArg>>

\* pipe(text=messages): an expression statement, its value is dropped
PipeCall ==
    /\ At("pipe_call")
    /\ \/ /\ NamesBound
          /\ Advance
          /\ exprValue' \in PipeResults
          /\ UNCHANGED <<processor, model, messages, inputs, outputs, pipe,
                         stdout, genNew, decodeArg>>
       \/ /\ Raise
          /\ UNCHANGED <<genNew, decodeArg>>

Next ==
    \/ ImportAuto
    \/ LoadProcessor
    \/ LoadModel
    \/ BuildMessages
    \/ ApplyChatTemplate
    \/ Generate
    \/ DecodePrint
    \/ ImportPipeline
    \/ BuildPipeline
    \/ PipeCall

Spec == Init /\ [][Next]_vars

-----------------------------------------------------------------------------
(* Vocabulary of the properties.                                            *)

\* positions in the history of the statements of kind op that were started
Started(op) == { i \in 1..Len(calls) : calls[i].stmt.op = op }

\* ... and of those that completed
Done(op) == { i \in Started(op) : calls[i].ok }

\* the module has ended: by an uncaught exception or by reaching end of file
Ended == err # <<>> \/ pc = Halted

\* the last statement started was line 24 / line 60, and it reached decode
JustDecoded ==
    /\ calls # <<>>
    /\ calls[Len(calls)].stmt.op = "decode_print"
    /\ Bound("inputs") /\ Bound("outputs") /\ Bound("processor")

JustPrinted == JustDecoded /\ calls[Len(calls)].ok

-----------------------------------------------------------------------------
\* C1: in the direct-API workflow the sequence handed to decode is exactly
\* the suffix of generate's row that starts at index n = input_ids.shape[-1]:
\* it is the run of newly generated tokens, nothing of the prompt and nothing
\* missing, and the text printed is the decoding of that run.
C1_DecodedIsNewSuffix ==
    JustDecoded =>
        /\ decodeArg = genNew
        /\ inputs[1] \o decodeArg = outputs[1]
        /\ Len(decodeArg) = Len(outputs[1]) - ShapeLast(inputs)
        /\ JustPrinted => stdout[Len(stdout)] = decode(genNew)

\* a full-length answer was decoded and printed whose first new token has the
\* same id as the last prompt token
C1_Witness ==
    /\ JustPrinted
    /\ ShapeLast(inputs) = 2
    /\ Len(genNew) = max_new_tokens
    /\ genNew[1] = inputs[1][2]

\* C2: a failing library call ends the script: the failing call is the last
\* statement ever started (no later call, no retry), every statement before
\* it completed, and standard output stays as it was when the call raised.
C2_FailureTerminates ==
    /\ \A i \in 1..Len(calls) :
          ~calls[i].ok => /\ i = Len(calls)
                          /\ err # <<>>
                          /\ err[1].stmt = calls[i].stmt
                          /\ pc \in 1..Len(Prog)
                          /\ Prog[pc] = calls[i].stmt
    /\ err # <<>> => /\ calls # <<>>
                     /\ ~calls[Len(calls)].ok
                     /\ Len(stdout) = err[1].printed

\* the second generate call raised after the first answer had been printed
C2_Witness ==
    /\ err # <<>>
    /\ err[1].stmt.op = "generate"
    /\ err[1].stmt.inst = 2
    /\ Len(stdout) = 1

\* C3: in one execution the direct-API workflow issues exactly one
\* model.generate call and the pipeline workflow exactly one pipe(...) call.
C3_ExactlyOneRequest ==
    /\ Cardinality(Started("generate")) <= 1
    /\ Cardinality(Started("pipe_call")) <= 1
    /\ pc = Halted => /\ Cardinality(Started("generate")) = 1
                      /\ Cardinality(Started("pipe_call")) = 1

\* C4: the two workflows are independent: no statement reads a global that
\* the other workflow assigned, and whether a workflow runs does not depend
\* on the other one having failed, so once the execution has ended each of
\* the two workflows has been run.
C4_WorkflowsIndependent ==
    /\ ~crossRead
    /\ Ended => \A wf \in {"direct", "pipeline"} :
                    \E i \in 1..Len(calls) : calls[i].stmt.wf = wf

\* C5: standard output holds one entry per completed direct-API print and
\* nothing else; the pipeline workflow's answer is only an expression value.
C5_StdoutOnlyDirectAnswers ==
    /\ Len(stdout) = Cardinality(Done("decode_print"))
    /\ JustPrinted => stdout[Len(stdout)] = decode(decodeArg)
    /\ Done("pipe_call") # {} => exprValue \in PipeResults

\* the whole file ran: two answers printed, and the pipeline returned a value
C5_Witness ==
    /\ pc = Halted
    /\ Len(stdout) = 2
    /\ Cardinality(Done("pipe_call")) = 2
    /\ exprValue \in PipeResults

\* C6: the span that is decoded and printed has at most 40 tokens: the
\* length of generate's row minus the input length is in 0..40.
C6_AtMostFortyNewTokens ==
    /\ \A i \in 1..Len(stdout) : Len(stdout[i]) <= 40
    /\ JustDecoded => /\ Len(decodeArg) \in 0..40
                      /\ (Len(outputs[1]) - ShapeLast(inputs)) \in 0..40

\* an answer of exactly 40 tokens was printed, and so was an empty one
C6_Witness ==
    /\ JustPrinted
    /\ Len(stdout) = 2
    /\ Len(stdout[1]) = 0
    /\ Len(stdout[2]) = 40

\* C10: the direct-API workflow is one chain in a fixed order, each step
\* starting only after the previous one completed: generation is started
\* only directly after processor load, model load, message construction and
\* formatting of the same snippet completed, and decode/print is started
\* only directly after generation of the same snippet completed.
C10_LinearCallChain ==
    \A i \in 1..Len(calls) :
        LET s == calls[i].stmt
            Prev(k, op) == /\ i > k
                           /\ calls[i - k].ok
                           /\ calls[i - k].stmt.op = op
                           /\ Snippet(calls[i - k].stmt) = Snippet(s)
        IN  /\ s.op = "generate" =>
                  /\ Prev(1, "apply_chat_template")
                  /\ Prev(2, "messages")
                  /\ Prev(3, "load_model")
                  /\ Prev(4, "load_processor")
                  /\ Bound("processor") /\ Bound("model") /\ Bound("inputs")
            /\ s.op = "decode_print" => Prev(1, "generate")
            /\ s.op = "apply_chat_template" => Prev(1, "messages")
            /\ s.op = "load_model" /\ s.wf = "direct" => Prev(1, "load_processor")

\* the second copy of the direct snippet ran through to its print
C10_Witness ==
    /\ err = <<>>
    /\ pc \in 1..Len(Prog)
    /\ Prog[pc].op = "import_pipeline"
    /\ Prog[pc].inst = 2
    /\ Cardinality(Done("generate")) = 2

=============================================================================
